---- MODULE Spec2Model ----
(***************************************************************************)
(* A model of charmonium.time_block: the TimeBlock profiler.               *)
(*                                                                         *)
(* TimeBlock instances own a stats table (a dict from call path to a list  *)
(* of (duration, mem_leaked) samples), a re-entrant lock and a             *)
(* thread-local TimeBlockData holding one label stack per asyncio task.    *)
(* Python lists and dicts are mutable objects: lists live in `heap` and    *)
(* dicts map keys to list references, so that aliasing between the store   *)
(* and the mappings handed to callers is a property of the model and not   *)
(* an assumption.                                                          *)
(***************************************************************************)
EXTENDS Integers, Sequences, FiniteSets, TLC

\* ------------------------------------------------------------------ bounds
\* Scopes entered in one run of Spec, clock ticks, and calls (ctx, get_stats,
\* add_stats, clear, mutation of a snapshot) in one run of SpecStore.
MaxScopes == 3
MaxTime == 1
MaxCalls == 4

\* ------------------------------------------------------------------ inputs
Labels == {"a", "b"}
Threads == {"T1", "T2"}
\* An execution context is <<thread, task>>; task 0 is "no running task".
Contexts == {<<"T1", 1>>, <<"T1", 2>>, <<"T2", 0>>}
TimeBlocks == {"A", "B"}
\* Instances whose ctx is driven; the other instance aggregates snapshots.
Instrumented == {"A"}
\* Values the memory reader (psutil rss) may return.
RssVals == {0}
\* What the wrapped region may raise: nothing, an Exception, an Exception
\* whose truth value is False (it defines __bool__ or __len__), or a
\* BaseException that is no Exception (KeyboardInterrupt, CancelledError).
Failures == {"none", "Exception", "FalsyException", "BaseException"}

VARIABLES now, ncalls, stacks, frames, heap, stats, lock, merge, snap,
          lastExit, nrec, cleared, report, restored, log, fault

vars == <<now, ncalls, stacks, frames, heap, stats, lock, merge, snap,
          lastExit, nrec, cleared, report, restored, log, fault>>

\* ------------------------------------------------------------------ helpers
None == <<>>
Some(x) == <<x>>
Last(s) == s[Len(s)]
Front(s) == SubSeq(s, 1, Len(s) - 1)
EmptyDict == <<>>
DictPut(d, k, v) == [x \in DOMAIN d \cup {k} |-> IF x = k THEN v ELSE d[x]]

RECURSIVE SetToSeq(_)
SetToSeq(S) ==
    IF S = {} THEN <<>>
    ELSE LET x == CHOOSE y \in S : TRUE IN <<x>> \o SetToSeq(S \ {x})

RECURSIVE SumLen(_, _)
SumLen(f, K) ==
    IF K = {} THEN 0
    ELSE LET k == CHOOSE y \in K : TRUE IN Len(f[k]) + SumLen(f, K \ {k})

\* The contents of a dict of list references: key -> sequence of samples.
Val(d) == [k \in DOMAIN d |-> heap[d[k]]]
ValIn(d, h) == [k \in DOMAIN d |-> h[d[k]]]
Total(v) == SumLen(v, DOMAIN v)
StoreVal(tb) == Val(stats[tb])

\* ------------------------------------------------------------------ TimeBlockData
root_label == ""
use_task_name == FALSE
initial_stack_ == <<root_label>>

\* TimeBlockData.initial_stack: the default factory of `stacks`.
initial_stack(task) ==
    IF use_task_name
    THEN IF task # 0 THEN <<"Task">> ELSE initial_stack_
    ELSE initial_stack_

\* id(task) if task is not None else 0
task_id_shared(c) == 0
task_id(c) == c[2]

\* TimeBlockData.stack: self.stacks[task_id], a defaultdict lookup in the
\* calling thread's thread-local dict. Returns the dict after the lookup.
stacks_lookup(d, k) == IF k \in DOMAIN d THEN d ELSE DictPut(d, k, initial_stack(k))
stack_of(tb, c) == stacks_lookup(stacks[tb][c[1]], task_id(c))[task_id(c)]

\* ------------------------------------------------------------------ scheduling
\* add_stats holds the lock over its whole loop and never awaits: while a
\* context is inside it, no task of the same thread runs.
CanRun(c) ==
    \A tb \in TimeBlocks :
        merge[tb] # None => merge[tb][1].by[1] # c[1]

\* threading.RLock: free, or re-entered by its owning thread.
LockFree(tb, c) == lock[tb] = "free" \/ lock[tb] = c[1]

\* ------------------------------------------------------------------ ctx
\* tuple(self.data.stack[1:])
record_key_with_root(stk) == stk
record_key(stk) == Tail(stk)

\* self.stats[key].append(sample) on a defaultdict(list): the new contents of
\* <<dict, heap>>.
insert_sample(d, h, key, sample) ==
    IF key \in DOMAIN d
    THEN <<d, [h EXCEPT ![d[key]] = <<sample>> \o @]>>
    ELSE <<DictPut(d, key, Len(h) + 1), Append(h, <<sample>>)>>
append_sample(d, h, key, sample) ==
    IF key \in DOMAIN d
    THEN <<d, [h EXCEPT ![d[key]] = Append(@, sample)]>>
    ELSE <<DictPut(d, key, Len(h) + 1), Append(h, <<sample>>)>>

\* What the caller of ctx observes when the wrapped region raised e:
\* `except Exception` captures e, `if exc: raise exc` re-raises it when it is
\* truthy; anything that is no Exception passes through the finally block.
ctx_outcome(e) ==
    IF e \in {"Exception", "FalsyException"}
    THEN IF e # "FalsyException" THEN e ELSE "none"
    ELSE e

\* `exc` after `except Exception as exc2: exc = exc2`.
captured(e) == IF e \in {"Exception", "FalsyException"} THEN Some(e) ELSE None

\* " (err)" if exc is not None else ""
err_marker(e) == IF captured(e) # None THEN " (err)" ELSE ""

\* The keyword arguments of ctx with nothing printed and no gc pass.
NoOpts == [print_start |-> FALSE, print_stop |-> FALSE, do_gc |-> FALSE]

\* sep.join(items)
RECURSIVE join(_, _)
join(sep, items) ==
    IF items = <<>> THEN ""
    ELSE IF Len(items) = 1 THEN items[1]
    ELSE items[1] \o sep \o join(sep, Tail(items))

\* qualified_name_str = " > ".join(self.data.stack)
qualified_name_no_root(stk) == join(" > ", Tail(stk))
qualified_name(stk) == join(" > ", stk)

\* The clock and memory readings of the finally block, in program order, each
\* with the time that has passed since the block started: time_stop, the gc
\* pass under its own timer when do_gc, then the end reading of the memory
\* reader.
finally_events_gc_first(do_gc, gc_time) ==
    IF do_gc
    THEN << <<"gc_start", 0>>, <<"gc_collect", 0>>, <<"gc_end", gc_time>>,
            <<"time_stop", gc_time>>, <<"mem_read", gc_time>> >>
    ELSE << <<"time_stop", gc_time>>, <<"mem_read", gc_time>> >>
finally_events(do_gc, gc_time) ==
    IF do_gc
    THEN << <<"time_stop", 0>>, <<"gc_start", 0>>, <<"gc_collect", 0>>,
            <<"gc_end", gc_time>>, <<"mem_read", gc_time>> >>
    ELSE << <<"time_stop", 0>>, <<"mem_read", gc_time>> >>

\* The time of the event called name in ev.
TimeOf(ev, name) == ev[CHOOSE i \in 1..Len(ev) : ev[i][1] = name][2]

\* duration = (time_stop - time_start).total_seconds()
exclusive_duration(f, time_stop) == time_stop - f.time_start - f.child_sum
duration_of(f, time_stop) == time_stop - f.time_start

\* Whether line 161 is reached: the end reading returned a value.
records_always(mem_end) == TRUE
records(mem_end) == mem_end # None

RemoveAt(s, i) == SubSeq(s, 1, i - 1) \o SubSeq(s, i + 1, Len(s))
Max(x, y) == IF x < y THEN y ELSE x

\* Entry of `with tb.ctx(name, name_extra, **opts):` in context c, up to the
\* yield. mem_start is what the memory reader returns, None when it raises:
\* the label is pushed and the notice is out by then, and the `with` body
\* never starts.
ctx_enter(c, tb, name, name_extra, opts, mem_start) ==
    /\ CanRun(c)
    /\ LET t == c[1]
           d == stacks_lookup(stacks[tb][t], task_id(c))
           label == name \o name_extra
           stk == Append(d[task_id(c)], label)
           qualified_name_str == qualified_name(stk)
       IN /\ stacks' = [stacks EXCEPT ![tb][t] = [d EXCEPT ![task_id(c)] = stk]]
          /\ log' = IF opts.print_start
                    THEN Append(log, [ctx |-> c, tb |-> tb,
                                      path |-> qualified_name_str,
                                      kind |-> "running", duration |-> 0,
                                      mem |-> None, err |-> ""])
                    ELSE log
          /\ IF mem_start = None
             THEN /\ fault' = Some([ctx |-> c, tb |-> tb, op |-> "enter",
                                    label |-> label, error |-> "ReaderFault"])
                  /\ frames' = frames
             ELSE /\ fault' = None
                  /\ frames' = [frames EXCEPT ![c] =
                        Append(@, [tb |-> tb, name |-> label,
                                   time_start |-> now, mem_start |-> mem_start[1],
                                   opts |-> opts,
                                   qualified_name_str |-> qualified_name_str,
                                   child_sum |-> 0, child_max |-> 0])]
    /\ ncalls' = ncalls + 1
    /\ UNCHANGED <<now, heap, stats, lock, merge, snap, lastExit, nrec,
                   cleared, report, restored>>

\* The locals of ctx when the finally block of the i-th scope of context c
\* has taken its readings: the wrapped region raised e, the gc pass takes
\* gc_time and the end reading of the memory reader is mem_end. r is the store
\* after the append, notice the stop notice.
finally_locals(c, i, e, gc_time, mem_end) ==
    LET f == frames[c][i]
        stk == stack_of(f.tb, c)
        ev == finally_events(f.opts.do_gc, gc_time)
        duration == duration_of(f, now + TimeOf(ev, "time_stop"))
        gc_duration == IF f.opts.do_gc
                       THEN TimeOf(ev, "gc_end") - TimeOf(ev, "gc_start")
                       ELSE 0
        mem_leaked == (IF mem_end = None THEN 0 ELSE mem_end[1]) - f.mem_start
        key == record_key(stk)
    IN [f |-> f, stk |-> stk, ev |-> ev, duration |-> duration,
        gc_duration |-> gc_duration, key |-> key,
        r |-> append_sample(stats[f.tb], heap, key, <<duration, mem_leaked>>),
        notice |-> [ctx |-> c, tb |-> f.tb, path |-> f.qualified_name_str,
                    kind |-> "stop", duration |-> duration,
                    mem |-> IF f.opts.do_gc
                            THEN Some(<<mem_leaked, gc_duration>>) ELSE None,
                    err |-> err_marker(e)]]

\* Exit of the i-th scope context c has open (the last one, when scopes are
\* properly nested): the wrapped region raised e, the gc pass takes gc_time
\* and the end reading of the memory reader is mem_end, None when it raises.
ctx_exit(c, i, e, gc_time, mem_end) ==
    /\ i \in 1..Len(frames[c])
    /\ CanRun(c)
    /\ \E x \in {finally_locals(c, i, e, gc_time, mem_end)} :
       LET f == x.f
           tb == f.tb
           t == c[1]
           stk == x.stk
           ev == x.ev
           duration == x.duration
           gc_duration == x.gc_duration
           key == x.key
           r == x.r
           notice == x.notice
       IN /\ f.opts.do_gc \/ gc_time = 0
          /\ now' = now + gc_time
          /\ IF records(mem_end)
             THEN /\ LockFree(tb, c)
                  /\ stats' = [stats EXCEPT ![tb] = r[1]]
                  /\ heap' = r[2]
                  /\ nrec' = [nrec EXCEPT ![tb] = @ + 1]
                  /\ cleared' = [cleared EXCEPT ![tb] = FALSE]
                  /\ stacks' = [stacks EXCEPT ![tb][t][task_id(c)] = Front(stk)]
                  /\ log' = IF f.opts.print_stop THEN Append(log, notice) ELSE log
                  /\ fault' = IF mem_end = None
                              THEN Some([ctx |-> c, tb |-> tb, op |-> "exit",
                                         label |-> f.name, error |-> "ReaderFault"])
                              ELSE None
                  /\ lastExit' = Some(
                        [ctx |-> c, tb |-> tb, key |-> key,
                         raised |-> e, propagated |-> ctx_outcome(e),
                         mismatched |-> f.name # Last(stk),
                         events |-> Append(ev, <<"record", gc_time>>),
                         elapsed |-> now + gc_time - f.time_start,
                         duration |-> duration, gc_duration |-> gc_duration,
                         do_gc |-> f.opts.do_gc,
                         child_sum |-> f.child_sum, child_max |-> f.child_max,
                         notice |-> IF f.opts.print_stop THEN Some(notice) ELSE None])
                  /\ frames' = [frames EXCEPT ![c] =
                        RemoveAt(IF i > 1
                                 THEN [@ EXCEPT ![i - 1].child_sum = @ + duration,
                                                ![i - 1].child_max =
                                                    Max(Max(@, duration), f.child_max)]
                                 ELSE @, i)]
             ELSE /\ fault' = Some([ctx |-> c, tb |-> tb, op |-> "exit",
                                    label |-> f.name, error |-> "ReaderFault"])
                  /\ frames' = [frames EXCEPT ![c] = RemoveAt(@, i)]
                  /\ UNCHANGED <<stats, heap, nrec, cleared, stacks, log, lastExit>>
    /\ UNCHANGED <<ncalls, lock, merge, snap, report, restored>>

\* datetime.datetime.now() advances.
Tick(limit) ==
    /\ now < limit
    /\ now' = now + 1
    /\ UNCHANGED <<ncalls, stacks, frames, heap, stats, lock, merge, snap,
                   lastExit, nrec, cleared,
                   report, restored, log, fault>>

\* ------------------------------------------------------------------ store
IndexOf(ks, k) == CHOOSE i \in 1..Len(ks) : ks[i] = k

\* copy.deepcopy(dict(self.stats)): a new dict holding a new list per key.
\* The new <<dict, heap>>.
shallow_copy(d, h) == <<d, h>>
deepcopy(d, h) ==
    LET ks == SetToSeq(DOMAIN d)
    IN <<[k \in DOMAIN d |-> Len(h) + IndexOf(ks, k)],
         h \o [i \in 1..Len(ks) |-> h[d[ks[i]]]]>>

\* list.extend
extend_front(old, times) == times \o old
extend_none(old, times) == old
extend(old, times) == old \o times

\* TimeBlock.get_stats: under the lock, a deep copy of the table.
get_stats_unlocked(c, tb) ==
    /\ CanRun(c)
    /\ LET r == deepcopy(stats[tb], heap)
       IN /\ snap' = Some([of |-> tb, d |-> r[1]])
          /\ heap' = r[2]
    /\ ncalls' = ncalls + 1
    /\ UNCHANGED <<now, stacks, frames, stats, lock, merge, lastExit,
                   nrec, cleared,
                   report, restored, log, fault>>

get_stats(c, tb) ==
    /\ CanRun(c)
    /\ LockFree(tb, c)
    /\ LET r == deepcopy(stats[tb], heap)
       IN /\ snap' = Some([of |-> tb, d |-> r[1]])
          /\ heap' = r[2]
    /\ ncalls' = ncalls + 1
    /\ UNCHANGED <<now, stacks, frames, stats, lock, merge, lastExit,
                   nrec, cleared,
                   report, restored, log, fault>>

\* The caller appends a sample to a list of the mapping get_stats returned.
UserSample == <<0, 0>>
mutate_snapshot(c) ==
    /\ CanRun(c)
    /\ snap # None
    /\ \A tb \in TimeBlocks : merge[tb] = None
    /\ \E k \in DOMAIN snap[1].d :
          heap' = [heap EXCEPT ![snap[1].d[k]] = Append(@, UserSample)]
    /\ ncalls' = ncalls + 1
    /\ UNCHANGED <<now, stacks, frames, stats, lock, merge, snap,
                   lastExit, nrec, cleared,
                   report, restored, log, fault>>

\* TimeBlock.add_stats(other_stats), other_stats being the mapping last
\* returned by get_stats: `with self.lock:` is entered ...
add_stats_begin(c, tb) ==
    /\ CanRun(c)
    /\ LockFree(tb, c)
    /\ snap # None
    /\ merge[tb] = None
    /\ lock' = [lock EXCEPT ![tb] = c[1]]
    /\ merge' = [merge EXCEPT ![tb] =
                    Some([by |-> c, other |-> snap[1].d,
                          pending |-> DOMAIN snap[1].d,
                          prior |-> StoreVal(tb),
                          otherVal |-> Val(snap[1].d)])]
    /\ ncalls' = ncalls + 1
    /\ UNCHANGED <<now, stacks, frames, heap, stats, snap, lastExit,
                   nrec, cleared,
                   report, restored, log, fault>>

\* ... one iteration of `for key, times in other_stats.items():
\* self.stats[key].extend(times)`, self.stats being a defaultdict(list) ...
add_stats_step(c, tb) ==
    /\ merge[tb] # None
    /\ merge[tb][1].by = c
    /\ \E k \in merge[tb][1].pending :
          LET times == heap[merge[tb][1].other[k]]
          IN /\ IF k \in DOMAIN stats[tb]
                THEN /\ heap' = [heap EXCEPT ![stats[tb][k]] = extend(@, times)]
                     /\ stats' = stats
                ELSE /\ heap' = Append(heap, extend(<<>>, times))
                     /\ stats' = [stats EXCEPT ![tb] = DictPut(@, k, Len(heap) + 1)]
             /\ nrec' = [nrec EXCEPT ![tb] = @ + Len(times)]
             /\ cleared' = [cleared EXCEPT ![tb] = FALSE]
             /\ merge' = [merge EXCEPT ![tb] =
                             Some([merge[tb][1] EXCEPT !.pending = @ \ {k}])]
    /\ UNCHANGED <<now, ncalls, stacks, frames, lock, snap, lastExit,
                   report, restored, log, fault>>

\* ... and the lock is released when the loop is over.
add_stats_end(c, tb) ==
    /\ merge[tb] # None
    /\ merge[tb][1].by = c
    /\ merge[tb][1].pending = {}
    /\ merge' = [merge EXCEPT ![tb] = None]
    /\ lock' = [lock EXCEPT ![tb] = "free"]
    /\ UNCHANGED <<now, ncalls, stacks, frames, heap, stats, snap,
                   lastExit, nrec, cleared,
                   report, restored, log, fault>>

\* TimeBlock.clear: under the lock, self.stats.clear().
clear_lists(c, tb) ==
    /\ CanRun(c)
    /\ LockFree(tb, c)
    /\ heap' = [r \in DOMAIN heap |->
                   IF \E k \in DOMAIN stats[tb] : stats[tb][k] = r
                   THEN <<>> ELSE heap[r]]
    /\ nrec' = [nrec EXCEPT ![tb] = 0]
    /\ cleared' = [cleared EXCEPT ![tb] = TRUE]
    /\ ncalls' = ncalls + 1
    /\ UNCHANGED <<now, stacks, frames, stats, lock, merge, snap,
                   lastExit,
                   report, restored, log, fault>>

clear(c, tb) ==
    /\ CanRun(c)
    /\ LockFree(tb, c)
    /\ stats' = [stats EXCEPT ![tb] = EmptyDict]
    /\ nrec' = [nrec EXCEPT ![tb] = 0]
    /\ cleared' = [cleared EXCEPT ![tb] = TRUE]
    /\ ncalls' = ncalls + 1
    /\ UNCHANGED <<now, stacks, frames, heap, lock, merge, snap,
                   lastExit,
                   report, restored, log, fault>>

\* ------------------------------------------------------------------ format_stats
\* Python's order on str, for the labels in use.
LabelRank(l) == IF l = "a" THEN 1 ELSE 2

\* Python's order on tuples of str.
RECURSIVE KeyLess(_, _)
KeyLess(x, y) ==
    IF x = <<>> THEN y # <<>>
    ELSE IF y = <<>> THEN FALSE
    ELSE IF x[1] = y[1] THEN KeyLess(Tail(x), Tail(y))
    ELSE LabelRank(x[1]) < LabelRank(y[1])

\* sorted(stats.keys())
RECURSIVE sorted(_)
sorted(S) ==
    IF S = {} THEN <<>>
    ELSE LET m == CHOOSE x \in S : \A y \in S \ {x} : KeyLess(x, y)
         IN <<m>> \o sorted(S \ {m})

RECURSIVE SumTime(_)
SumTime(vals) == IF vals = <<>> THEN 0 ELSE vals[1][1] + SumTime(Tail(vals))

\* utils.mean over the durations, as the fraction <<sum, len>>; a zero len is
\* the ZeroDivisionError of sum(lst) / len(lst).
mean(vals) == <<SumTime(vals), Len(vals)>>

\* a / b * 100 for fractions a and b, b not zero.
percent(a, b) == <<a[1] * b[2] * 100, a[2] * b[1]>>
Hundred == <<100, 1>>
RatEq(p, q) == p[1] * q[2] = q[1] * p[2]

\* parent = key[:-1]
parent_is_key(key) == key
parent_of(key) == Front(key)
\* total = key[:2]
total_of(key) == SubSeq(key, 1, IF Len(key) < 2 THEN Len(key) ELSE 2)

\* The body of the loop `for key in keys:` for the rows still to come; acc is
\* what the call has computed so far: the rows appended to `lines`, the
\* percent_parent values assigned, and the exception that ended it.
RECURSIVE format_rows(_, _, _)
format_rows(keys, st, acc) ==
    IF keys = <<>> \/ acc.err # "none" THEN acc
    ELSE
      LET key == keys[1]
          n_calls == Len(st[key])
          cumulative_time_m == mean(st[key])
          parent == parent_of(key)
          total == total_of(key)
          parent_err == parent \in DOMAIN st /\ mean(st[parent])[1] = 0
          percent_parent ==
              IF parent \in DOMAIN st
              THEN percent(cumulative_time_m, mean(st[parent]))
              ELSE Hundred
          parents == Append(acc.parents, <<key, percent_parent>>)
      IN IF parent_err
         THEN [acc EXCEPT !.err = "ZeroDivisionError"]
         ELSE IF total \notin DOMAIN st
         THEN [acc EXCEPT !.err = "KeyError", !.parents = parents]
         ELSE IF mean(st[total])[1] = 0
         THEN [acc EXCEPT !.err = "ZeroDivisionError", !.parents = parents]
         ELSE format_rows(Tail(keys), st,
                 [acc EXCEPT
                    !.parents = parents,
                    !.rows = Append(@,
                       [key |-> key, n_calls |-> n_calls,
                        cumulative_time_m |-> cumulative_time_m,
                        percent_total |-> percent(cumulative_time_m, mean(st[total])),
                        percent_parent |-> percent_parent])])

\* TimeBlock.format_stats on the mapping get_stats returned. The standard
\* deviations and the memory columns are irrational-valued and raise nothing
\* of their own; they are left out of the rows.
format_stats_of(st) ==
    IF \E k \in DOMAIN st : Len(st[k]) = 0
    THEN [err |-> "ZeroDivisionError", rows |-> <<>>, parents |-> <<>>]
    ELSE LET r == format_rows(sorted(DOMAIN st), st,
                     [err |-> "none", rows |-> <<>>, parents |-> <<>>])
         IN IF r.err = "none" THEN r ELSE [r EXCEPT !.rows = <<>>]

\* format_stats(): the deep copy get_stats makes is dropped on return.
format_stats(c, tb) ==
    /\ CanRun(c)
    /\ LockFree(tb, c)
    /\ report' = Some([of |-> tb, input |-> StoreVal(tb),
                       out |-> format_stats_of(StoreVal(tb))])
    /\ UNCHANGED <<now, ncalls, stacks, frames, heap, stats, lock, merge, snap,
                   lastExit, nrec, cleared, restored, log, fault>>

\* ------------------------------------------------------------------ decor
\* func.__qualname__ of the decorated functions, the debug representations
\* (repr) of the positional arguments of a call, and its keyword arguments.
Funcs == {"f"}
PosArgs == {<<>>, <<"1">>, <<"1", "'x'">>}
KwKeys == {"a", "b"}
KwReprs == {"2"}

\* [f"{key}={val!r}" for key, val in sorted(kwargs.items())], kwargs being a
\* function from its keys to the representations of its values.
kwarg_items(kwargs) ==
    LET ks == sorted({<<k>> : k \in DOMAIN kwargs})
    IN [i \in 1..Len(ks) |-> ks[i][1] \o "=" \o kwargs[ks[i][1]]]

\* arg_str = "".join(["(", ", ".join(...args...), ", ".join(...kwargs...), ")"])
arg_str(args, kwargs) ==
    join("", <<"(", join(", ", args), join(", ", kwarg_items(kwargs)), ")">>)

\* decor(...)(func)(*args, **kwargs) and adecor's coroutine, up to the call of
\* func inside `with self.ctx(...)`; the return of func is ctx_exit.
timed_func(c, tb, func, print_args, args, kwargs, opts, mem_start) ==
    ctx_enter(c, tb, func, IF print_args THEN arg_str(args, kwargs) ELSE "",
              opts, mem_start)

\* ------------------------------------------------------------------ pickling
\* TimeBlock.__getstate__: the attributes that are captured.
PickledAttrs == {"stats", "data"}

\* pickle.loads(pickle.dumps(tb)) in context c: __getstate__ captures
\* self.stats and self.data, TimeBlockData.__getstate__ captures the calling
\* thread's __dict__; __setstate__ sets these two attributes on an instance
\* whose __init__ never ran. `orig` keeps what the original held at capture.
dumps_loads(c, tb) ==
    /\ CanRun(c)
    /\ restored' = Some([attrs |-> PickledAttrs,
                         stats |-> StoreVal(tb),
                         thread |-> c[1],
                         stacks |-> stacks[tb][c[1]],
                         orig |-> [stats |-> StoreVal(tb), stacks |-> stacks[tb]],
                         result |-> None])
    /\ UNCHANGED <<now, ncalls, stacks, frames, heap, stats, lock, merge, snap,
                   lastExit, nrec, cleared, report, log, fault>>

\* get_stats on an instance with the attributes attrs and the table st:
\* `with self.lock:` looks the lock attribute up.
get_stats_on(attrs, st) ==
    IF "lock" \notin attrs
    THEN [err |-> "AttributeError", value |-> EmptyDict]
    ELSE [err |-> "none", value |-> st]

\* restored.get_stats()
restored_get_stats(c) ==
    /\ CanRun(c)
    /\ restored # None
    /\ restored[1].result = None
    /\ restored' = Some([restored[1] EXCEPT
                           !.result = Some(get_stats_on(restored[1].attrs,
                                                        restored[1].stats))])
    /\ UNCHANGED <<now, ncalls, stacks, frames, heap, stats, lock, merge, snap,
                   lastExit, nrec, cleared, report, log, fault>>

\* ------------------------------------------------------------------ spec
Init ==
    /\ now = 0
    /\ ncalls = 0
    /\ stacks = [tb \in TimeBlocks |-> [t \in Threads |-> EmptyDict]]
    /\ frames = [c \in Contexts |-> <<>>]
    /\ heap = <<>>
    /\ stats = [tb \in TimeBlocks |-> EmptyDict]
    /\ lock = [tb \in TimeBlocks |-> "free"]
    /\ merge = [tb \in TimeBlocks |-> None]
    /\ snap = None
    /\ lastExit = None
    /\ nrec = [tb \in TimeBlocks |-> 0]
    /\ cleared = [tb \in TimeBlocks |-> FALSE]
    /\ report = None
    /\ restored = None
    /\ log = <<>>
    /\ fault = None

Next ==
    \/ \E c \in Contexts, tb \in Instrumented, name \in Labels, m \in RssVals :
          ncalls < MaxScopes /\ ctx_enter(c, tb, name, "", NoOpts, Some(m))
    \/ \E c \in Contexts, e \in Failures, m \in RssVals : ctx_exit(c, Len(frames[c]), e, 0, Some(m))
    \/ Tick(MaxTime)

Spec == Init /\ [][Next]_vars

\* The store under concurrent use by two threads: scopes on both instances,
\* snapshots, merges and clears. The clock stands still here; the memory
\* reader tells the samples apart.
StoreContexts == {<<"T1", 1>>, <<"T2", 0>>}
RssEnd == {0, 1}
StoreLabels == {"a"}

NextStore ==
    \/ \E c \in StoreContexts, tb \in TimeBlocks, name \in StoreLabels, m \in RssVals :
          ncalls < MaxCalls /\ ctx_enter(c, tb, name, "", NoOpts, Some(m))
    \/ \E c \in StoreContexts, m \in RssEnd : ctx_exit(c, Len(frames[c]), "none", 0, Some(m))
    \/ \E c \in StoreContexts, tb \in TimeBlocks :
          ncalls < MaxCalls /\ get_stats(c, tb)
    \/ \E c \in StoreContexts : ncalls < MaxCalls /\ mutate_snapshot(c)
    \/ \E c \in StoreContexts, tb \in TimeBlocks :
          ncalls < MaxCalls /\ add_stats_begin(c, tb)
    \/ \E c \in StoreContexts, tb \in TimeBlocks : add_stats_step(c, tb)
    \/ \E c \in StoreContexts, tb \in TimeBlocks : add_stats_end(c, tb)
    \/ \E c \in StoreContexts, tb \in TimeBlocks :
          ncalls < MaxCalls /\ clear(c, tb)

SpecStore == Init /\ [][NextStore]_vars

\* One store under concurrent use by a merging thread and a reading thread.
AtomicStores == {"A"}
AtomicCalls == MaxCalls + 1

NextAtomic ==
    \/ \E c \in StoreContexts, tb \in AtomicStores, name \in StoreLabels, m \in RssVals :
          ncalls < AtomicCalls /\ ctx_enter(c, tb, name, "", NoOpts, Some(m))
    \/ \E c \in StoreContexts, m \in RssEnd : ctx_exit(c, Len(frames[c]), "none", 0, Some(m))
    \/ \E c \in StoreContexts, tb \in AtomicStores :
          ncalls < AtomicCalls /\ get_stats(c, tb)
    \/ \E c \in StoreContexts, tb \in AtomicStores :
          ncalls < AtomicCalls /\ add_stats_begin(c, tb)
    \/ \E c \in StoreContexts, tb \in AtomicStores : add_stats_step(c, tb)
    \/ \E c \in StoreContexts, tb \in AtomicStores : add_stats_end(c, tb)
    \/ \E c \in StoreContexts, tb \in AtomicStores :
          ncalls < AtomicCalls /\ clear(c, tb)

SpecAtomic == Init /\ [][NextAtomic]_vars

\* Reports of one thread's nested scopes.
FormatContexts == {<<"T2", 0>>}
FormatTime == MaxTime + 1

NextFormat ==
    \/ \E c \in FormatContexts, tb \in Instrumented, name \in Labels, m \in RssVals :
          ncalls < MaxScopes /\ ctx_enter(c, tb, name, "", NoOpts, Some(m))
    \/ \E c \in FormatContexts, m \in RssVals : ctx_exit(c, Len(frames[c]), "none", 0, Some(m))
    \/ Tick(FormatTime)
    \/ \E c \in FormatContexts, tb \in Instrumented : format_stats(c, tb)

SpecFormat == Init /\ [][NextFormat]_vars

\* Instances captured and reconstructed while scopes are open.
NextPickle ==
    \/ \E c \in StoreContexts, tb \in Instrumented, name \in StoreLabels, m \in RssVals :
          ncalls < MaxScopes /\ ctx_enter(c, tb, name, "", NoOpts, Some(m))
    \/ \E c \in StoreContexts, m \in RssEnd : ctx_exit(c, Len(frames[c]), "none", 0, Some(m))
    \/ \E c \in StoreContexts, tb \in Instrumented : dumps_loads(c, tb)
    \/ \E c \in StoreContexts : restored_get_stats(c)

SpecPickle == Init /\ [][NextPickle]_vars

\* Scopes of two tasks of one thread with both notices enabled.
NoticeContexts == {<<"T1", 1>>, <<"T1", 2>>}
PrintOpts == [print_start |-> TRUE, print_stop |-> TRUE, do_gc |-> FALSE]

NextNotice ==
    \/ \E c \in NoticeContexts, tb \in Instrumented, name \in Labels, m \in RssVals :
          ncalls < MaxScopes /\ ctx_enter(c, tb, name, "", PrintOpts, Some(m))
    \/ \E c \in NoticeContexts, e \in Failures, m \in RssVals :
          ctx_exit(c, Len(frames[c]), e, 0, Some(m))

SpecNotice == Init /\ [][NextNotice]_vars

\* Calls of a decorated function, nested through its body.
NextDecor ==
    \/ \E c \in FormatContexts, tb \in Instrumented, func \in Funcs,
          print_args \in BOOLEAN, args \in PosArgs, m \in RssVals :
          \E K \in SUBSET KwKeys : \E kwargs \in [K -> KwReprs] :
             /\ ncalls < MaxScopes
             /\ timed_func(c, tb, func, print_args, args, kwargs, NoOpts, Some(m))
    \/ \E c \in FormatContexts, m \in RssVals :
          ctx_exit(c, Len(frames[c]), "none", 0, Some(m))

SpecDecor == Init /\ [][NextDecor]_vars

\* Scopes of one context closed in any order: the context managers are
\* driven by hand (__enter__, __exit__) rather than by nested `with` blocks.
NextMisuse ==
    \/ \E c \in FormatContexts, tb \in Instrumented, name \in Labels, m \in RssVals :
          ncalls < MaxScopes /\ ctx_enter(c, tb, name, "", NoOpts, Some(m))
    \/ \E c \in FormatContexts, i \in 1..MaxScopes, m \in RssVals :
          ctx_exit(c, i, "none", 0, Some(m))

SpecMisuse == Init /\ [][NextMisuse]_vars

\* Scopes under a memory reader that may raise at either reading.
Readings == {Some(m) : m \in RssVals} \cup {None}
FaultFailures == {"none", "Exception"}

NextFault ==
    \/ \E c \in FormatContexts, tb \in Instrumented, name \in Labels, r \in Readings :
          ncalls < MaxScopes /\ ctx_enter(c, tb, name, "", NoOpts, r)
    \/ \E c \in FormatContexts, e \in FaultFailures, r \in Readings :
          ctx_exit(c, Len(frames[c]), e, 0, r)

SpecFault == Init /\ [][NextFault]_vars

\* Nested scopes of one context under a clock that advances, with and
\* without a gc pass at exit; the pass takes up to MaxTime.
GcTimes == 0..MaxTime
GcOpts(do_gc) == [print_start |-> FALSE, print_stop |-> FALSE, do_gc |-> do_gc]

NextGc ==
    \/ \E c \in FormatContexts, tb \in Instrumented, name \in StoreLabels,
          do_gc \in BOOLEAN, m \in RssVals :
          ncalls < MaxScopes /\ ctx_enter(c, tb, name, "", GcOpts(do_gc), Some(m))
    \/ \E c \in FormatContexts, g \in GcTimes, m \in RssVals :
          now + g <= FormatTime /\ ctx_exit(c, Len(frames[c]), "none", g, Some(m))
    \/ Tick(FormatTime)

SpecGc == Init /\ [][NextGc]_vars

\* ------------------------------------------------------------------ properties: scopes
\* The labels of the scopes context c has open on instance tb, outermost first.
RECURSIVE OpenLabels(_, _)
OpenLabels(fs, tb) ==
    IF fs = <<>> THEN <<>>
    ELSE (IF fs[1].tb = tb THEN <<fs[1].name>> ELSE <<>>) \o OpenLabels(Tail(fs), tb)

ExitStep(c) == Len(frames'[c]) = Len(frames[c]) - 1

\* new is old with exactly one sample appended to the list of key K.
OneSampleAppended(old, new, K) ==
    /\ DOMAIN new = DOMAIN old \cup {K}
    /\ \A k \in DOMAIN old \ {K} : new[k] = old[k]
    /\ Len(new[K]) = (IF K \in DOMAIN old THEN Len(old[K]) ELSE 0) + 1
    /\ Front(new[K]) = (IF K \in DOMAIN old THEN old[K] ELSE <<>>)

\* C1: every exit of a properly nested scope appends exactly one sample to the
\* store, under the key that is the context's stack at exit time without the
\* root label, which is the labels of the still-open enclosing scopes followed
\* by the exiting scope's label; no other store entry changes.
C1_ExitRecordsPath ==
    [][\A c \in Contexts :
          ExitStep(c) =>
             LET tb == Last(frames[c]).tb
                 K == OpenLabels(frames[c], tb)
             IN /\ K = Tail(stack_of(tb, c))
                /\ Last(K) = Last(frames[c]).name
                /\ OneSampleAppended(StoreVal(tb), ValIn(stats'[tb], heap'), K)
                /\ \A o \in TimeBlocks \ {tb} :
                      ValIn(stats'[o], heap') = StoreVal(o)]_vars

\* A nested scope has exited and recorded <<outer, inner>> while the outer
\* scope is still open.
C1_Witness ==
    \E c \in Contexts :
        /\ Len(frames[c]) = 1
        /\ lastExit # None
        /\ lastExit[1].ctx = c
        /\ Len(lastExit[1].key) = 2
        /\ lastExit[1].key[1] = frames[c][1].name
        /\ lastExit[1].key \in DOMAIN stats["A"]

\* C2: whatever the wrapped region raised is what the caller of ctx observes:
\* the failure is neither swallowed nor replaced.
C2_FailurePropagated ==
    lastExit # None =>
        (lastExit[1].raised # "none" =>
            lastExit[1].propagated = lastExit[1].raised)

\* C3: under any interleaving of contexts, the stack a context resolves holds
\* the root label followed by the labels of the scopes that context itself has
\* open, and the thread-local dicts hold no stack of a context of another
\* thread.
C3_StacksIsolated ==
    \A tb \in TimeBlocks :
        /\ \A c \in Contexts :
              task_id(c) \in DOMAIN stacks[tb][c[1]] =>
                 stacks[tb][c[1]][task_id(c)]
                    = <<root_label>> \o OpenLabels(frames[c], tb)
        /\ \A c \in Contexts :
              frames[c] # <<>> => task_id(c) \in DOMAIN stacks[tb][c[1]]
                                    \/ OpenLabels(frames[c], tb) = <<>>
        /\ \A t \in Threads :
              DOMAIN stacks[tb][t] \subseteq {task_id(c) : c \in {x \in Contexts : x[1] = t}}

\* Two tasks of one thread have scopes with different labels open, and one
\* task has already recorded a path of its own while the other was suspended.
C3_Witness ==
    \E c1, c2 \in Contexts :
        /\ c1 # c2 /\ c1[1] = c2[1]
        /\ frames[c1] # <<>> /\ frames[c2] # <<>>
        /\ frames[c1][1].name # frames[c2][1].name
        /\ lastExit # None /\ lastExit[1].ctx = c1
        /\ lastExit[1].key = <<frames[c1][1].name, frames[c1][1].name>>

\* ------------------------------------------------------------------ properties: notices
\* C11: the stop notice of a scope carries the "(err)" marker exactly when the
\* wrapped region ended by a failure of any kind, interrupts and cancellation
\* included, and never when it returned normally.
C11_ErrMarker ==
    (lastExit # None /\ lastExit[1].notice # None) =>
        (lastExit[1].notice[1].err = " (err)" <=> lastExit[1].raised # "none")

\* The notices ns of one context read as brackets, st being the paths of the
\* scopes open before them: the paths of the scopes open after them. A
\* "running" notice must extend the path of the innermost open scope (the root
\* label when there is none) by " > " and one label, a stop notice must carry
\* the path of the innermost open scope.
RECURSIVE Brackets(_, _)
Brackets(ns, st) ==
    IF ns = <<>> THEN st
    ELSE IF ns[1].kind = "running"
    THEN IF \E l \in Labels :
               ns[1].path = (IF st = <<>> THEN root_label ELSE Last(st)) \o " > " \o l
         THEN Brackets(Tail(ns), Append(st, ns[1].path))
         ELSE <<"unbalanced">>
    ELSE IF st # <<>> /\ Last(st) = ns[1].path
    THEN Brackets(Tail(ns), Front(st))
    ELSE <<"unbalanced">>

NoticesOf(c) == SelectSeq(log, LAMBDA n : n.ctx = c)

\* C12: the notices of one context are emitted in bracket order, whatever
\* notices of other tasks come in between: a scope's "running" notice comes
\* before the notices of the scopes nested in it and its stop notice after
\* them, and both carry the same " > "-joined path, root label included. The
\* running notices without a stop notice are those of the scopes still open.
C12_BracketOrder ==
    \A c \in Contexts :
        Brackets(NoticesOf(c), <<>>)
            = [i \in 1..Len(frames[c]) |-> frames[c][i].qualified_name_str]

\* One task has run a scope and a scope nested in it to their stop notices
\* while a notice of the other task came in between.
C12_Witness ==
    \E i, j, k, l, m \in 1..Len(log) :
        /\ i < j /\ j < k /\ k < l /\ l < m
        /\ log[i].ctx = log[j].ctx /\ log[j].ctx = log[l].ctx /\ log[l].ctx = log[m].ctx
        /\ log[k].ctx # log[i].ctx
        /\ log[i].kind = "running" /\ log[j].kind = "running"
        /\ log[l].kind = "stop" /\ log[m].kind = "stop"
        /\ log[i].path = " > a" /\ log[j].path = " > a > b"
        /\ log[l].path = log[j].path /\ log[m].path = log[i].path

\* ------------------------------------------------------------------ properties: decor
\* The items separated by ", ".
RECURSIVE CommaSeparated(_)
CommaSeparated(items) ==
    IF items = <<>> THEN ""
    ELSE IF Len(items) = 1 THEN items[1]
    ELSE CommaSeparated(Front(items)) \o ", " \o Last(items)

\* key=value for the keyword arguments, by ascending key.
KeywordItems(kwargs) ==
    (IF "a" \in DOMAIN kwargs THEN <<"a=" \o kwargs["a"]>> ELSE <<>>)
    \o (IF "b" \in DOMAIN kwargs THEN <<"b=" \o kwargs["b"]>> ELSE <<>>)

\* C13: with print_args, the label a decorated call opens its scope under is
\* the qualified name, "(", the representations of the positional arguments
\* in order and then key=value of the keyword arguments by ascending key,
\* every two consecutive items separated by ", ", and ")": for positional
\* arguments only, keyword arguments only, both, and none.
C13_ArgsLabel ==
    [][\A c \in Contexts, tb \in TimeBlocks, func \in Funcs, args \in PosArgs,
          m \in RssVals, K \in SUBSET KwKeys :
          \A kwargs \in [K -> KwReprs] :
             timed_func(c, tb, func, TRUE, args, kwargs, NoOpts, Some(m)) =>
                Last(frames'[c]).name
                   = func \o "(" \o CommaSeparated(args \o KeywordItems(kwargs)) \o ")"]_vars

\* ------------------------------------------------------------------ properties: misuse
\* C14: an exit of a scope whose label is not the last element of the
\* context's stack does not complete silently: the caller observes a fault.
C14_MismatchFaults ==
    (lastExit # None /\ lastExit[1].mismatched
                     /\ lastExit[1].raised = "none") =>
        (lastExit[1].propagated # "none" \/ fault # None)

\* ------------------------------------------------------------------ properties: reader faults
\* C15: when the memory reader raises at the start reading or at the end
\* reading of a scope, the caller observes that fault, no sample is recorded
\* for the scope and every entry of every store is as it was.
C15_ReaderFaultSkipsRecord ==
    [][\A c \in Contexts :
          (\/ \E tb \in TimeBlocks, name \in Labels :
                 ctx_enter(c, tb, name, "", NoOpts, None)
           \/ \E e \in Failures : ctx_exit(c, Len(frames[c]), e, 0, None))
          => /\ fault' # None
             /\ fault'[1].ctx = c
             /\ fault'[1].error = "ReaderFault"
             /\ nrec' = nrec
             /\ \A tb \in TimeBlocks :
                   /\ DOMAIN stats'[tb] = DOMAIN stats[tb]
                   /\ ValIn(stats'[tb], heap') = StoreVal(tb)]_vars

\* The end reading of a scope raised while its path already held a sample.
C15_Witness ==
    /\ fault # None
    /\ fault[1].op = "exit"
    /\ \E k \in DOMAIN stats[fault[1].tb] :
          /\ Last(k) = fault[1].label
          /\ Len(StoreVal(fault[1].tb)[k]) = 1
    /\ nrec[fault[1].tb] = 1

\* C16: whichever way scopes were left, by return, by a failure of the wrapped
\* region or by a failure of the instrumentation, the stack of a context is the
\* root label followed by the labels of the scopes the context still has open,
\* in entry order, and <<root>> once none is open.
C16_StackIsOpenScopes ==
    \A tb \in TimeBlocks, c \in Contexts :
        /\ stack_of(tb, c) = <<root_label>> \o OpenLabels(frames[c], tb)
        /\ frames[c] = <<>> => stack_of(tb, c) = <<root_label>>

\* ------------------------------------------------------------------ properties: time
\* The sample the last exit recorded.
LastRecorded == Last(StoreVal(lastExit[1].tb)[lastExit[1].key])

\* C17: at an exit with do_gc the duration is frozen first, then the gc timer
\* starts, the collection runs and the gc timer stops, then the end memory
\* reading is taken, then the sample is recorded; the recorded duration ends
\* where the gc pass begins, so that duration and gc time add up to the time
\* from entry to the record; the memory reader is called twice for the scope,
\* at entry and after the gc timer stopped.
C17_GcAfterDuration ==
    (lastExit # None /\ lastExit[1].do_gc) =>
        LET x == lastExit[1]
            ev == x.events
        IN /\ [i \in 1..Len(ev) |-> ev[i][1]]
                 = <<"time_stop", "gc_start", "gc_collect", "gc_end",
                     "mem_read", "record">>
           /\ \A i \in 1..(Len(ev) - 1) : ev[i][2] <= ev[i + 1][2]
           /\ ev[1][2] = 0
           /\ x.gc_duration = ev[4][2] - ev[2][2]
           /\ LastRecorded[1] + x.gc_duration = x.elapsed
           /\ 1 + Cardinality({i \in 1..Len(ev) : ev[i][1] = "mem_read"}) = 2

\* A scope that ran for one tick and whose gc pass took another tick has
\* recorded a duration of one.
C17_Witness ==
    /\ lastExit # None
    /\ lastExit[1].do_gc
    /\ lastExit[1].gc_duration = 1
    /\ LastRecorded[1] = 1
    /\ lastExit[1].elapsed = 2

\* C19: the duration recorded for a scope is at least the duration recorded
\* for each scope that was nested in it, and at least the sum of the durations
\* of its direct child scopes, which ran one after the other.
C19_DurationsNest ==
    lastExit # None =>
        /\ LastRecorded[1] >= lastExit[1].child_max
        /\ LastRecorded[1] >= lastExit[1].child_sum

\* A scope that contained two scopes of one tick each, one after the other,
\* has recorded two ticks.
C19_Witness ==
    /\ lastExit # None
    /\ lastExit[1].child_sum = 2
    /\ lastExit[1].child_max = 1
    /\ LastRecorded[1] = 2

\* ------------------------------------------------------------------ properties: store
Get(v, k) == IF k \in DOMAIN v THEN v[k] ELSE <<>>
\* For every key, the samples of prior followed by the samples of other.
Merged(prior, other) ==
    [k \in DOMAIN prior \cup DOMAIN other |-> Get(prior, k) \o Get(other, k)]

\* C4: the mapping get_stats returns is the store's content at a point where
\* no record, merge or clear was partially applied: the content at the call
\* when no merge is under way, and otherwise the content before the merge or
\* after all of it.
C4_SnapshotAtomic ==
    [][\A c \in Contexts, tb \in TimeBlocks :
          get_stats(c, tb) =>
             LET v == ValIn(snap'[1].d, heap')
             IN IF merge[tb] = None
                THEN v = StoreVal(tb)
                ELSE \/ v = merge[tb][1].prior
                     \/ v = Merged(merge[tb][1].prior, merge[tb][1].otherVal)]_vars

\* A merge of two keys is half applied under the lock of one thread while the
\* snapshot a reader holds of that store shows none of it.
C4_Witness ==
    \E tb \in TimeBlocks :
        /\ merge[tb] # None
        /\ lock[tb] = merge[tb][1].by[1]
        /\ merge[tb][1].pending # {}
        /\ merge[tb][1].pending # DOMAIN merge[tb][1].other
        /\ StoreVal(tb) # merge[tb][1].prior
        /\ snap # None
        /\ snap[1].of = tb
        /\ Val(snap[1].d) = merge[tb][1].prior

\* C5: get_stats returns the store's content, which holds exactly as many
\* samples as were recorded; the returned mapping is a deep copy: no later
\* record, merge or clear changes it, and mutating it leaves every store
\* unchanged.
C5_SnapshotIsolated ==
    [][/\ \A c \in Contexts, tb \in TimeBlocks :
             get_stats(c, tb) =>
                /\ ValIn(snap'[1].d, heap') = StoreVal(tb)
                /\ Total(ValIn(snap'[1].d, heap')) = nrec[tb]
       /\ (snap # None /\ snap' = snap) =>
             \/ ValIn(snap'[1].d, heap') = Val(snap[1].d)
             \/ \E c \in Contexts : mutate_snapshot(c)
       /\ \A c \in Contexts :
             mutate_snapshot(c) =>
                \A tb \in TimeBlocks : ValIn(stats'[tb], heap') = StoreVal(tb)]_vars

\* A snapshot holding two samples is still intact after its store was
\* cleared.
C5_Witness ==
    /\ snap # None
    /\ Total(Val(snap[1].d)) = 2
    /\ stats[snap[1].of] = EmptyDict
    /\ cleared[snap[1].of]

\* C6: when add_stats(snapshot) is over, the store holds for every key its
\* prior samples followed by the snapshot's samples for that key, keys of one
\* side only included under their own name; the merge changes neither the
\* snapshot nor any other store.
C6_MergeAppends ==
    [][\A c \in Contexts, tb \in TimeBlocks :
          /\ add_stats_end(c, tb) =>
                StoreVal(tb) = Merged(merge[tb][1].prior, merge[tb][1].otherVal)
          /\ (add_stats_begin(c, tb) \/ add_stats_step(c, tb) \/ add_stats_end(c, tb)) =>
                /\ \A o \in TimeBlocks \ {tb} : ValIn(stats'[o], heap') = StoreVal(o)
                /\ snap' = snap
                /\ snap # None => ValIn(snap[1].d, heap') = Val(snap[1].d)]_vars

\* All of a snapshot of another store has been merged into a store that
\* already held different samples under the same key.
C6_Witness ==
    \E tb \in TimeBlocks :
        /\ merge[tb] # None
        /\ merge[tb][1].pending = {}
        /\ snap # None
        /\ snap[1].of # tb
        /\ \E k \in DOMAIN merge[tb][1].prior \cap DOMAIN merge[tb][1].otherVal :
              /\ merge[tb][1].prior[k] # merge[tb][1].otherVal[k]
              /\ StoreVal(tb)[k] = merge[tb][1].prior[k] \o merge[tb][1].otherVal[k]

\* C7: get_stats on a store whose last change was a clear returns the empty
\* mapping, whatever was recorded or merged before the clear.
C7_ClearEmpties ==
    [][\A c \in Contexts, tb \in TimeBlocks :
          (get_stats(c, tb) /\ cleared[tb]) => snap'[1].d = EmptyDict]_vars

\* A store that held samples was cleared and its snapshot is empty.
C7_Witness ==
    /\ snap # None
    /\ snap[1].d = EmptyDict
    /\ cleared[snap[1].of]
    /\ \E r \in DOMAIN heap : heap[r] # <<>>
    /\ \A o \in TimeBlocks \ {snap[1].of} : stats[o] = EmptyDict /\ ~cleared[o]

\* old is an initial part of new.
IsPrefix(old, new) == Len(old) <= Len(new) /\ SubSeq(new, 1, Len(old)) = old

\* C18: but for a clear, no step removes a key of a store or changes, reorders
\* or removes a sample it holds: every list only grows at its end; the sample
\* of an exiting scope becomes the last of its path, whenever its scope was
\* entered.
C18_AppendOnly ==
    [][/\ \A tb \in TimeBlocks :
             \/ \E c \in Contexts : clear(c, tb)
             \/ \A k \in DOMAIN stats[tb] :
                   /\ k \in DOMAIN stats'[tb]
                   /\ IsPrefix(StoreVal(tb)[k], ValIn(stats'[tb], heap')[k])
       /\ \A c \in Contexts :
             ExitStep(c) =>
                LET x == lastExit'[1]
                    new == ValIn(stats'[x.tb], heap')[x.key]
                IN /\ Last(new)[1] = x.duration
                   /\ Front(new) = Get(StoreVal(x.tb), x.key)]_vars

\* Scopes of two contexts were open under one path at the same time; one of
\* them has exited, its sample is the last of the path, and the other is
\* still open.
C18_Witness ==
    /\ lastExit # None
    /\ lastExit[1].key \in DOMAIN stats[lastExit[1].tb]
    /\ Last(StoreVal(lastExit[1].tb)[lastExit[1].key])[1] = lastExit[1].duration
    /\ \E c \in Contexts \ {lastExit[1].ctx} :
          /\ frames[c] # <<>>
          /\ Last(frames[c]).tb = lastExit[1].tb
          /\ record_key(stack_of(lastExit[1].tb, c)) = lastExit[1].key

\* C20: every key of a store maps to a list of at least one sample, so the
\* mean and the per-call figure of a path divide by a positive count.
C20_NoEmptyLists ==
    \A tb \in TimeBlocks :
        \A k \in DOMAIN stats[tb] :
            /\ StoreVal(tb)[k] # <<>>
            /\ mean(StoreVal(tb)[k])[2] > 0

\* A merge has created a key in a store from a snapshot of another store,
\* which was cleared since.
C20_Witness ==
    \E tb \in TimeBlocks :
        /\ merge[tb] # None
        /\ merge[tb][1].pending = {}
        /\ DOMAIN merge[tb][1].otherVal \ DOMAIN merge[tb][1].prior # {}
        /\ snap # None
        /\ \E o \in TimeBlocks \ {tb} : cleared[o] /\ snap[1].of = o

\* ------------------------------------------------------------------ properties: report
\* The mean duration of path k in mapping st, as a fraction.
MeanTime(st, k) == <<SumTime(st[k]), Len(st[k])>>
\* q is a / b * 100.
IsPercentOf(q, a, b) == q[1] * (a[2] * b[1]) = q[2] * (a[1] * b[2] * 100)

\* C8: format_stats produces a row for every path of the store; the row's
\* percent-of-root is 100 when the path's first-two-labels prefix has no
\* entry, and the path's mean over the prefix's mean times 100 when it has.
\* (Stated for stores whose mean durations are all non-zero, where every
\* quotient exists.)
C8_PercentOfRoot ==
    (report # None /\ \A k \in DOMAIN report[1].input :
                         SumTime(report[1].input[k]) # 0) =>
        LET st == report[1].input
            rows == report[1].out.rows
        IN \A key \in DOMAIN st :
              \E i \in 1..Len(rows) :
                 /\ rows[i].key = key
                 /\ LET total == SubSeq(key, 1, IF Len(key) < 2 THEN Len(key) ELSE 2)
                    IN IF total \notin DOMAIN st
                       THEN RatEq(rows[i].percent_total, <<100, 1>>)
                       ELSE MeanTime(st, total)[1] # 0 =>
                               IsPercentOf(rows[i].percent_total,
                                           MeanTime(st, key), MeanTime(st, total))

\* C9: the percent-of-parent format_stats computes for a path is 100 when the
\* path without its last label has no entry in the store, as for every
\* top-level path, and otherwise the path's mean duration over the parent's
\* mean duration times 100.
C9_PercentOfParent ==
    report # None =>
        LET st == report[1].input
            ps == report[1].out.parents
            rows == report[1].out.rows
            Right(key, pp) ==
                /\ Front(key) \notin DOMAIN st => RatEq(pp, <<100, 1>>)
                /\ Len(key) = 1 => RatEq(pp, <<100, 1>>)
                /\ Front(key) \in DOMAIN st =>
                      IsPercentOf(pp, MeanTime(st, key), MeanTime(st, Front(key)))
        IN /\ \A i \in 1..Len(ps) : Right(ps[i][1], ps[i][2])
           /\ \A i \in 1..Len(rows) : Right(rows[i].key, rows[i].percent_parent)
           /\ report[1].out.err = "none" =>
                 {rows[i].key : i \in 1..Len(rows)} = DOMAIN st

\* A report whose top-level row shows 100 for want of a parent and whose
\* nested row shows half of its parent's mean.
C9_Witness ==
    /\ report # None
    /\ report[1].out.err = "none"
    /\ \E i, j \in 1..Len(report[1].out.rows) :
          LET r == report[1].out.rows[i]
              q == report[1].out.rows[j]
          IN /\ Len(r.key) = 1
             /\ RatEq(r.percent_parent, <<100, 1>>)
             /\ Front(q.key) = r.key
             /\ RatEq(q.percent_parent, <<50, 1>>)

\* ------------------------------------------------------------------ properties: pickling
\* C10: an instance reconstructed from a captured one holds the stats mapping
\* and the stacks (of the capturing thread's contexts) the original held at
\* capture, and it is usable: get_stats on it returns that mapping, ready to
\* be merged into a live instance.
C10_RestoredUsable ==
    restored # None =>
        /\ restored[1].stats = restored[1].orig.stats
        /\ restored[1].stacks = restored[1].orig.stacks[restored[1].thread]
        /\ restored[1].result # None =>
              /\ restored[1].result[1].err = "none"
              /\ restored[1].result[1].value = restored[1].orig.stats

====
